---------------------------- MODULE Spec2Model ----------------------------
(***************************************************************************)
(* Typesense demo API (src/main.py): the startup bootstrap                 *)
(* (setup_typesense, run by lifespan) and the request handlers, each of    *)
(* which forwards to the external Typesense engine through one shared      *)
(* client.                                                                 *)
(*                                                                         *)
(* Conventions                                                             *)
(*   - A Python float is represented by the integer number of hundredths   *)
(*     (999.99 is 99999, 4.7 is 470).                                      *)
(*   - An Optional value is <<>> for None and <<v>> for a supplied v.      *)
(*   - The engine is an external collaborator: its state (collections and  *)
(*     their documents) is part of the model, and whether it answers a     *)
(*     given call is an input of that call (up \in BOOLEAN).               *)
(*   - Hit lists and their ranking are the engine's; the model keeps the   *)
(*     found-count and the parameters sent, not the hits.                  *)
(***************************************************************************)
EXTENDS Integers, Sequences, FiniteSets, TLC

VARIABLES
    phase,        \* lifespan: "startup" until setup_typesense returned, then "serving"
    pc,           \* position inside setup_typesense
    attempt,      \* loop variable of the reachability loop (0-based)
    retry_delay,  \* local retry_delay, a fraction <<numerator, denominator>>
    sleeps,       \* arguments of the time.sleep calls made so far
    bootCalls,    \* engine calls made by setup_typesense, in order
    bootRuns,     \* number of times setup_typesense was entered
    bootRaised,   \* TRUE iff setup_typesense let an exception escape
    printed,      \* the last diagnostic setup_typesense printed
    collections,  \* engine: the collections, in listing order
    documents,    \* engine: collection name -> (document id -> document)
    posted,       \* history: id -> product of the last successful POST not deleted since
    last          \* the request handled last: inputs, engine calls, response

vars == <<phase, pc, attempt, retry_delay, sleeps, bootCalls, bootRuns,
          bootRaised, printed, collections, documents, posted, last>>

bootVars == <<pc, attempt, retry_delay, sleeps, bootCalls, bootRuns, bootRaised,
              printed>>

----------------------------------------------------------------------------
(* Program constants *)

COLLECTION_NAME == "products"

max_retries == 10

initial_retry_delay == 2

\* COLLECTION_SCHEMA: the name and the number of declared fields
COLLECTION_SCHEMA == [name |-> COLLECTION_NAME, fields |-> 7]

sample_products ==
    << [id |-> "1", name |-> "iPhone 15 Pro",
        description |-> "Latest Apple smartphone with advanced camera system",
        category |-> "Electronics", price |-> 99999, rating |-> 470,
        tags |-> <<"smartphone", "apple", "premium", "camera">>],
       [id |-> "2", name |-> "Samsung Galaxy S24",
        description |-> "Flagship Android phone with AI features",
        category |-> "Electronics", price |-> 89999, rating |-> 450,
        tags |-> <<"smartphone", "samsung", "android", "AI">>],
       [id |-> "3", name |-> "MacBook Pro M3",
        description |-> "Professional laptop with M3 chip",
        category |-> "Computers", price |-> 199999, rating |-> 480,
        tags |-> <<"laptop", "apple", "professional", "M3">>],
       [id |-> "4", name |-> "Dell XPS 13",
        description |-> "Ultrabook with premium design",
        category |-> "Computers", price |-> 129999, rating |-> 440,
        tags |-> <<"laptop", "dell", "ultrabook", "portable">>],
       [id |-> "5", name |-> "Sony WH-1000XM5",
        description |-> "Noise-canceling wireless headphones",
        category |-> "Audio", price |-> 39999, rating |-> 460,
        tags |-> <<"headphones", "sony", "wireless", "noise-canceling">>] >>

----------------------------------------------------------------------------
(* Bounds and input sets *)

\* GET /products/: limit ranges over 0..MaxLimit and the default 10,
\* offset over 0..MaxOffset and 25
MaxLimit == 2

MaxOffset == 3

Limits == (0 .. MaxLimit) \cup {10}

Offsets == (0 .. MaxOffset) \cup {25}

\* ids used in request paths: a sample id, an id only POST can create, an id never stored
RequestIds == {"1", "6", "9"}

\* collection names used in request paths
RequestNames == {"products", "logs", "nosuch"}

\* bodies of POST /products/
PostedProducts ==
    { [id |-> "6", name |-> "Kindle", description |-> "E-reader",
       category |-> "Books", price |-> 12900, rating |-> 430,
       tags |-> <<"reader", "amazon">>],
      [id |-> "6", name |-> "Kindle Oasis", description |-> "E-reader",
       category |-> "Books", price |-> 0, rating |-> 410,
       tags |-> <<>>],
      [id |-> "1", name |-> "Pixel 9", description |-> "Google phone",
       category |-> "Electronics", price |-> 79900, rating |-> 450,
       tags |-> <<"smartphone">>] }

\* bodies of POST /search/: category None, empty or a name; min_price None or 0.0;
\* max_price None or 500.0
SearchQueries ==
    [query : {"phone"},
     category : {<<>>, <<"">>, <<"Audio">>},
     min_price : {<<>>, <<0>>},
     max_price : {<<>>, <<50000>>}]

\* limit of GET /recommendations/{id}
RecommendationLimits == {5}

\* what the engine may hold before the process starts
oldDoc == [id |-> "7", name |-> "Old", description |-> "Left over",
           category |-> "Misc", price |-> 100, rating |-> 100, tags |-> <<"old">>]

logDocs == [i \in {"a", "b"} |-> [id |-> i]]

logsSchema == [name |-> "logs", fields |-> 2]

EngineInits ==
    { [collections |-> <<>>, documents |-> <<>>],
      [collections |-> <<COLLECTION_SCHEMA, logsSchema>>,
       documents |-> [n \in {"products", "logs"} |->
                        IF n = "logs" THEN logDocs ELSE [i \in {"7"} |-> oldDoc]]] }

----------------------------------------------------------------------------
(* Helpers *)

Range(s) == {s[i] : i \in DOMAIN s}

RECURSIVE Join(_, _)
\* sep.join(s) for a sequence of strings
Join(s, sep) ==
    IF Len(s) = 0 THEN ""
    ELSE IF Len(s) = 1 THEN s[1]
    ELSE s[1] \o sep \o Join(Tail(s), sep)

RECURSIVE SumSeq(_)
SumSeq(s) == IF Len(s) = 0 THEN 0 ELSE Head(s) + SumSeq(Tail(s))

\* Python's a // b (floor division) for b # 0
PyFloorDiv(a, b) == IF b > 0 THEN a \div b ELSE (-a) \div (-b)

\* str(x) of a float given in hundredths: 99999 -> "999.99", 50000 -> "500.0", 0 -> "0.0"
FloatStr(h) ==
    LET a == IF h < 0 THEN -h ELSE h
        whole == a \div 100
        frac == a % 100
        digits == IF frac % 10 = 0 THEN ToString(frac \div 10)
                  ELSE ToString(frac \div 10) \o ToString(frac % 10)
    IN (IF h < 0 THEN "-" ELSE "") \o ToString(whole) \o "." \o digits

\* retry_delay * 2 in place of retry_delay * 1.5
TimesTwo(f) == <<f[1] * 2, f[2]>>

\* retry_delay * 1.5 on fractions
TimesOneAndAHalf(f) == <<f[1] * 3, f[2] * 2>>

Put(f, k, v) == [x \in (DOMAIN f) \cup {k} |-> IF x = k THEN v ELSE f[x]]

Drop(f, k) == [x \in (DOMAIN f) \ {k} |-> f[x]]

\* the sequence s without the entries whose name is n
RECURSIVE WithoutName(_, _)
WithoutName(s, n) ==
    IF Len(s) = 0 THEN <<>>
    ELSE IF Head(s).name = n THEN WithoutName(Tail(s), n)
    ELSE <<Head(s)>> \o WithoutName(Tail(s), n)

----------------------------------------------------------------------------
(* The engine, as seen through the client: each operator is one client     *)
(* call on the engine state <<cs, ds>> and yields the call's outcome       *)
(* (ok, or the error raised) with the engine state after it.  up = FALSE   *)
(* is a call the engine never answers (connection error or timeout).       *)

CollectionNames(cs) == {cs[i].name : i \in DOMAIN cs}

Raise(e, cs, ds) == [ok |-> FALSE, err |-> e, collections |-> cs, documents |-> ds]

Return(v, cs, ds) == [ok |-> TRUE, value |-> v, collections |-> cs, documents |-> ds]

\* client.collections.retrieve()
collections_retrieve(cs, ds, up) ==
    IF ~up THEN Raise("ServiceUnavailable", cs, ds)
    ELSE Return(cs, cs, ds)

\* client.collections[name].retrieve()
collection_retrieve(cs, ds, name, up) ==
    IF ~up THEN Raise("ServiceUnavailable", cs, ds)
    ELSE IF name \notin CollectionNames(cs) THEN Raise("ObjectNotFound", cs, ds)
    ELSE Return(CHOOSE c \in Range(cs) : c.name = name, cs, ds)

\* client.collections[name].delete()
collection_delete(cs, ds, name, up) ==
    IF ~up THEN Raise("ServiceUnavailable", cs, ds)
    ELSE IF name \notin CollectionNames(cs) THEN Raise("ObjectNotFound", cs, ds)
    ELSE Return(name, WithoutName(cs, name), Drop(ds, name))

\* client.collections.create(schema)
collections_create(cs, ds, schema, up) ==
    IF ~up THEN Raise("ServiceUnavailable", cs, ds)
    ELSE IF schema.name \in CollectionNames(cs) THEN Raise("ObjectAlreadyExists", cs, ds)
    ELSE Return(schema, Append(cs, schema), Put(ds, schema.name, <<>>))

RECURSIVE ImportAll(_, _)
\* the documents of a collection after importing the records one by one
\* (action create: a record whose id is already stored is rejected, not raised)
ImportAll(d, records) ==
    IF Len(records) = 0 THEN d
    ELSE ImportAll(IF Head(records).id \in DOMAIN d THEN d
                   ELSE Put(d, Head(records).id, Head(records)),
                   Tail(records))

\* client.collections[name].documents.import_(records)
documents_import(cs, ds, name, records, up) ==
    IF ~up THEN Raise("ServiceUnavailable", cs, ds)
    ELSE IF name \notin CollectionNames(cs) THEN Raise("ObjectNotFound", cs, ds)
    ELSE Return(Len(records), cs, Put(ds, name, ImportAll(ds[name], records)))

\* client.collections[name].documents.create(doc)
documents_create(cs, ds, name, doc, up) ==
    IF ~up THEN Raise("ServiceUnavailable", cs, ds)
    ELSE IF name \notin CollectionNames(cs) THEN Raise("ObjectNotFound", cs, ds)
    ELSE IF doc.id \in DOMAIN ds[name] THEN Raise("ObjectAlreadyExists", cs, ds)
    ELSE Return(doc, cs, Put(ds, name, Put(ds[name], doc.id, doc)))

\* client.collections[name].documents[id].retrieve()
document_retrieve(cs, ds, name, id, up) ==
    IF ~up THEN Raise("ServiceUnavailable", cs, ds)
    ELSE IF name \notin CollectionNames(cs) THEN Raise("ObjectNotFound", cs, ds)
    ELSE IF id \notin DOMAIN ds[name] THEN Raise("ObjectNotFound", cs, ds)
    ELSE Return(ds[name][id], cs, ds)

\* client.collections[name].documents[id].delete()
document_delete(cs, ds, name, id, up) ==
    IF ~up THEN Raise("ServiceUnavailable", cs, ds)
    ELSE IF name \notin CollectionNames(cs) THEN Raise("ObjectNotFound", cs, ds)
    ELSE IF id \notin DOMAIN ds[name] THEN Raise("ObjectNotFound", cs, ds)
    ELSE Return(ds[name][id], cs, Put(ds, name, Drop(ds[name], id)))

\* client.collections[name].documents.search({'q': '*', ...}) without a filter:
\* found is the number of documents of the collection
documents_search_all(cs, ds, name, up) ==
    IF ~up THEN Raise("ServiceUnavailable", cs, ds)
    ELSE IF name \notin CollectionNames(cs) THEN Raise("ObjectNotFound", cs, ds)
    ELSE Return([found |-> Cardinality(DOMAIN ds[name])], cs, ds)

\* client.collections[name].documents.search({'q': '*', 'facet_by': 'category'}):
\* the facet values are the categories of the stored documents
documents_facet_category(cs, ds, name, up) ==
    IF ~up THEN Raise("ServiceUnavailable", cs, ds)
    ELSE IF name \notin CollectionNames(cs) THEN Raise("ObjectNotFound", cs, ds)
    ELSE Return([found |-> Cardinality(DOMAIN ds[name]),
                 categories |-> {ds[name][i].category : i \in DOMAIN ds[name]}],
                cs, ds)

\* client.collections[name].documents.search(params) with a query or a filter:
\* which documents match is the engine's decision, found is given by it
documents_search(cs, ds, name, found, up) ==
    IF ~up THEN Raise("ServiceUnavailable", cs, ds)
    ELSE IF name \notin CollectionNames(cs) THEN Raise("ObjectNotFound", cs, ds)
    ELSE Return([found |-> found], cs, ds)

\* the found-counts the engine may report for a query on a collection
Founds(ds, name) == IF name \in DOMAIN ds THEN {0, Cardinality(DOMAIN ds[name])} ELSE {0}

\* one engine call as logged: the operation, what it addressed, the parameters
\* passed, how it ended
Call(op, target, params, r) ==
    [op |-> op, target |-> target, params |-> params, ok |-> r.ok,
     err |-> IF r.ok THEN "" ELSE r.err]

NoParams == <<>>

----------------------------------------------------------------------------
(* Startup: lifespan awaits setup_typesense, then yields to the router *)

NoRequest == [endpoint |-> "none"]

Init ==
    /\ phase = "startup"
    /\ pc = "idle"
    /\ attempt = 0
    /\ retry_delay = <<initial_retry_delay, 1>>
    /\ sleeps = <<>>
    /\ bootCalls = <<>>
    /\ bootRuns = 0
    /\ bootRaised = FALSE
    /\ printed = ""
    /\ \E e \in EngineInits : collections = e.collections /\ documents = e.documents
    /\ posted = <<>>
    /\ last = NoRequest

\* lifespan, line 146: setup_typesense() is called
lifespan_startup ==
    /\ phase = "startup"
    /\ pc = "idle"
    /\ pc' = "connect"
    /\ bootRuns' = bootRuns + 1
    /\ UNCHANGED <<phase, attempt, retry_delay, sleeps, bootCalls, bootRaised,
                   printed, collections, documents, posted, last>>

\* AfterFailedAttempt without the return of line 74: the loop ends and the
\* function goes on to the setup calls
AfterFailedAttempt_NoReturn(a) ==
    IF a < max_retries - 1
    THEN [pc |-> "connect", printed |-> "Attempt failed. Retrying"]
    ELSE [pc |-> "delete", printed |-> "Failed to connect to Typesense"]

\* after the attempt with index a failed: the next iteration, or, once the
\* last attempt failed, the message of line 73 and the return of line 74
AfterFailedAttempt(a) ==
    IF a < max_retries - 1
    THEN [pc |-> "connect", printed |-> "Attempt failed. Retrying"]
    ELSE [pc |-> "returned", printed |-> "Failed to connect to Typesense"]

\* one iteration of the reachability loop
setup_attempt ==
    /\ pc = "connect"
    /\ \E up \in BOOLEAN :
         LET r == collections_retrieve(collections, documents, up) IN
         /\ bootCalls' = Append(bootCalls, Call("collections.retrieve", "", NoParams, r))
         /\ IF r.ok
            THEN /\ pc' = "delete"
                 /\ printed' = "Connected to Typesense"
                 /\ UNCHANGED <<attempt, retry_delay, sleeps>>
            ELSE /\ pc' = AfterFailedAttempt(attempt).pc
                 /\ printed' = AfterFailedAttempt(attempt).printed
                 /\ IF attempt < max_retries - 1
                    THEN /\ sleeps' = Append(sleeps, retry_delay)
                         /\ retry_delay' = TimesOneAndAHalf(retry_delay)
                         /\ attempt' = attempt + 1
                    ELSE UNCHANGED <<attempt, retry_delay, sleeps>>
    /\ UNCHANGED <<phase, bootRuns, bootRaised, collections, documents, posted, last>>

\* the delete without its own try/except: its failure ends the setup
AfterDeleteError_Outer ==
    [pc |-> "returned", raised |-> FALSE, printed |-> "Error setting up Typesense"]

\* the inner try/except around the delete: the failure is passed over
AfterDeleteError == [pc |-> "create", raised |-> FALSE, printed |-> "Connected to Typesense"]

\* the outer try/except: the failure is printed, the function returns normally
AfterSetupError == [pc |-> "returned", raised |-> FALSE, printed |-> "Error setting up Typesense"]

\* client.collections[COLLECTION_NAME].delete()
setup_delete ==
    /\ pc = "delete"
    /\ \E up \in BOOLEAN :
         LET r == collection_delete(collections, documents, COLLECTION_NAME, up)
             next == IF r.ok
                     THEN [pc |-> "create", raised |-> FALSE, printed |-> printed]
                     ELSE AfterDeleteError
         IN
         /\ bootCalls' = Append(bootCalls,
                                Call("collection.delete", COLLECTION_NAME, NoParams, r))
         /\ collections' = r.collections
         /\ documents' = r.documents
         /\ pc' = next.pc
         /\ bootRaised' = next.raised
         /\ printed' = next.printed
    /\ UNCHANGED <<phase, attempt, retry_delay, sleeps, bootRuns, posted, last>>

\* client.collections.create(COLLECTION_SCHEMA)
setup_create ==
    /\ pc = "create"
    /\ \E up \in BOOLEAN :
         LET r == collections_create(collections, documents, COLLECTION_SCHEMA, up)
             next == IF r.ok
                     THEN [pc |-> "import", raised |-> FALSE, printed |-> printed]
                     ELSE AfterSetupError
         IN
         /\ bootCalls' = Append(bootCalls,
                                Call("collections.create", COLLECTION_NAME,
                                     COLLECTION_SCHEMA, r))
         /\ collections' = r.collections
         /\ documents' = r.documents
         /\ pc' = next.pc
         /\ bootRaised' = next.raised
         /\ printed' = next.printed
    /\ UNCHANGED <<phase, attempt, retry_delay, sleeps, bootRuns, posted, last>>

\* client.collections[COLLECTION_NAME].documents.import_(sample_products)
setup_import ==
    /\ pc = "import"
    /\ \E up \in BOOLEAN :
         LET r == documents_import(collections, documents, COLLECTION_NAME,
                                   sample_products, up)
             next == IF r.ok
                     THEN [pc |-> "returned", raised |-> FALSE,
                           printed |-> "Typesense setup completed successfully!"]
                     ELSE AfterSetupError
         IN
         /\ bootCalls' = Append(bootCalls,
                                Call("documents.import", COLLECTION_NAME,
                                     sample_products, r))
         /\ collections' = r.collections
         /\ documents' = r.documents
         /\ pc' = next.pc
         /\ bootRaised' = next.raised
         /\ printed' = next.printed
    /\ UNCHANGED <<phase, attempt, retry_delay, sleeps, bootRuns, posted, last>>

\* setup_typesense started as a task and not awaited
StartupComplete_NotAwaited == pc # "idle"

\* the await of line 146 is over: setup_typesense has returned or raised
StartupComplete == pc = "returned"

\* lifespan, line 147: the application starts serving, unless startup raised.
\* The locals of setup_typesense are gone with its frame, and the record of
\* its sleeps and calls is closed: what it printed last stays on the log.
lifespan_yield ==
    /\ phase = "startup"
    /\ StartupComplete
    /\ phase' = IF bootRaised THEN "failed" ELSE "serving"
    /\ attempt' = 0
    /\ retry_delay' = <<initial_retry_delay, 1>>
    /\ sleeps' = <<>>
    /\ bootCalls' = <<>>
    /\ UNCHANGED <<pc, bootRuns, bootRaised, printed, collections, documents,
                   posted, last>>

----------------------------------------------------------------------------
(* The request handlers.  A handler is an async function that never awaits: *)
(* it runs from its first line to its response without another handler     *)
(* running in between.  Each operator below is the handler's code: from    *)
(* the inputs and the engine's answers to the response, the engine calls   *)
(* made and the engine's documents afterwards.                             *)

Response(endpoint, args, calls, status, body, ds) ==
    [endpoint |-> endpoint, args |-> args, calls |-> calls, status |-> status,
     body |-> body, documents |-> ds]

\* raise HTTPException(status_code=status, detail=f"{text}: {e}")
HTTPException(prefix, e) == [detail |-> prefix \o ": " \o e]

root ==
    Response("root", <<>>, <<>>, 200,
             [message |-> "Welcome to Typesense Demo API"], documents)

health_check(up) ==
    LET r == collections_retrieve(collections, documents, up)
        calls == <<Call("collections.retrieve", "", NoParams, r)>>
    IN IF r.ok
       THEN Response("health_check", <<>>, calls, 200,
                     [status |-> "healthy", typesense |-> TRUE,
                      collections |-> Len(r.value)], documents)
       ELSE Response("health_check", <<>>, calls, 200,
                     [status |-> "degraded", typesense |-> FALSE, error |-> r.err],
                     documents)

\* offset // limit, the page counted from 0
PageOf_ZeroBased(limit, offset) == PyFloorDiv(offset, limit)

\* (offset // limit) + 1
PageOf(limit, offset) == PyFloorDiv(offset, limit) + 1

get_all_products(limit, offset, up) ==
    LET args == [limit |-> limit, offset |-> offset] IN
    IF limit = 0
    THEN \* ZeroDivisionError while search_params is built: no call is made
         Response("get_all_products", args, <<>>, 400,
                  HTTPException("Failed to get products",
                                "integer division or modulo by zero"), documents)
    ELSE LET search_params == [q |-> "*", per_page |-> limit,
                               page |-> PageOf(limit, offset)]
             r == documents_search_all(collections, documents, COLLECTION_NAME, up)
             calls == <<Call("documents.search", COLLECTION_NAME, search_params, r)>>
         IN IF r.ok
            THEN Response("get_all_products", args, calls, 200,
                          [total |-> r.value.found, page |-> search_params.page,
                           per_page |-> limit], documents)
            ELSE Response("get_all_products", args, calls, 400,
                          HTTPException("Failed to get products", r.err), documents)

\* product.dict() losing the tags
ProductDict_NoTags(product) ==
    [id |-> product.id, name |-> product.name, description |-> product.description,
     category |-> product.category, price |-> product.price,
     rating |-> product.rating, tags |-> <<>>]

\* product.dict()
ProductDict(product) ==
    [id |-> product.id, name |-> product.name, description |-> product.description,
     category |-> product.category, price |-> product.price,
     rating |-> product.rating, tags |-> product.tags]

add_product(product, up) ==
    LET r == documents_create(collections, documents, COLLECTION_NAME,
                              ProductDict(product), up)
        calls == <<Call("documents.create", COLLECTION_NAME, ProductDict(product), r)>>
    IN IF r.ok
       THEN Response("add_product", product, calls, 200,
                     [message |-> "Product added successfully", product |-> r.value],
                     r.documents)
       ELSE Response("add_product", product, calls, 400,
                     HTTPException("Failed to add product", r.err), r.documents)

\* get_product calling the engine a second time when the first call failed
get_product_Retry(product_id, up) ==
    LET r == document_retrieve(collections, documents, COLLECTION_NAME, product_id, up)
        c == Call("document.retrieve", product_id, NoParams, r)
    IN IF r.ok
       THEN Response("get_product", [product_id |-> product_id], <<c>>, 200,
                     r.value, documents)
       ELSE Response("get_product", [product_id |-> product_id], <<c, c>>, 404,
                     HTTPException("Product not found", r.err), documents)

get_product(product_id, up) ==
    LET r == document_retrieve(collections, documents, COLLECTION_NAME, product_id, up)
        calls == <<Call("document.retrieve", product_id, NoParams, r)>>
    IN IF r.ok
       THEN Response("get_product", [product_id |-> product_id], calls, 200,
                     r.value, documents)
       ELSE Response("get_product", [product_id |-> product_id], calls, 404,
                     HTTPException("Product not found", r.err), documents)

delete_product(product_id, up) ==
    LET r == document_delete(collections, documents, COLLECTION_NAME, product_id, up)
        calls == <<Call("document.delete", product_id, NoParams, r)>>
    IN IF r.ok
       THEN Response("delete_product", [product_id |-> product_id], calls, 200,
                     [message |-> "Product " \o product_id \o " deleted successfully"],
                     r.documents)
       ELSE Response("delete_product", [product_id |-> product_id], calls, 404,
                     HTTPException("Failed to delete product", r.err), r.documents)

\* the list filters of search_products
Filters(search_query) ==
    (IF search_query.category # <<>> /\ search_query.category[1] # ""
     THEN <<"category:=" \o search_query.category[1]>> ELSE <<>>)
    \o (IF search_query.min_price # <<>>
        THEN <<"price:>=" \o FloatStr(search_query.min_price[1])>> ELSE <<>>)
    \o (IF search_query.max_price # <<>>
        THEN <<"price:<=" \o FloatStr(search_query.max_price[1])>> ELSE <<>>)

\* search_params of search_products, with filter_by only if filters is not empty
SearchParams(search_query) ==
    LET filters == Filters(search_query) IN
    IF Len(filters) > 0
    THEN [q |-> search_query.query, query_by |-> "name,description,tags",
          sort_by |-> "rating:desc,price:asc",
          filter_by |-> Join(filters, " && ")]
    ELSE [q |-> search_query.query, query_by |-> "name,description,tags",
          sort_by |-> "rating:desc,price:asc"]

search_products(search_query, found, up) ==
    LET search_params == SearchParams(search_query)
        r == documents_search(collections, documents, COLLECTION_NAME, found, up)
        calls == <<Call("documents.search", COLLECTION_NAME, search_params, r)>>
    IN IF r.ok
       THEN Response("search_products", search_query, calls, 200,
                     [query |-> search_query.query, found |-> r.value.found], documents)
       ELSE Response("search_products", search_query, calls, 400,
                     HTTPException("Search failed", r.err), documents)

get_all_collections(up) ==
    LET r == collections_retrieve(collections, documents, up)
        calls == <<Call("collections.retrieve", "", NoParams, r)>>
    IN IF r.ok
       THEN Response("get_all_collections", <<>>, calls, 200,
                     [collections |-> r.value], documents)
       ELSE Response("get_all_collections", <<>>, calls, 400,
                     HTTPException("Failed to get collections", r.err), documents)

get_collection_info(collection_name, up) ==
    LET r == collection_retrieve(collections, documents, collection_name, up)
        calls == <<Call("collection.retrieve", collection_name, NoParams, r)>>
        args == [collection_name |-> collection_name]
    IN IF r.ok
       THEN Response("get_collection_info", args, calls, 200, r.value, documents)
       ELSE Response("get_collection_info", args, calls, 404,
                     HTTPException("Collection not found", r.err), documents)

CountParams == [q |-> "*", per_page |-> 0]

get_collection_stats(collection_name, up1, up2) ==
    LET args == [collection_name |-> collection_name]
        r1 == collection_retrieve(collections, documents, collection_name, up1)
        c1 == Call("collection.retrieve", collection_name, NoParams, r1)
        r2 == documents_search_all(collections, documents, collection_name, up2)
        c2 == Call("documents.search", collection_name, CountParams, r2)
    IN IF ~r1.ok
       THEN Response("get_collection_stats", args, <<c1>>, 400,
                     HTTPException("Failed to get collection stats", r1.err), documents)
       ELSE IF ~r2.ok
       THEN Response("get_collection_stats", args, <<c1, c2>>, 400,
                     HTTPException("Failed to get collection stats", r2.err), documents)
       ELSE Response("get_collection_stats", args, <<c1, c2>>, 200,
                     [collection_name |-> collection_name, schema |-> r1.value,
                      document_count |-> r2.value.found], documents)

\* the loop body with a failed count search passed over: no entry is appended
StatsLoopBody_Skip(acc, collection, r) ==
    LET c == Call("documents.search", collection.name, CountParams, r) IN
    IF r.ok
    THEN [total_docs |-> acc.total_docs + r.value.found,
          collection_stats |-> Append(acc.collection_stats,
                                      [name |-> collection.name,
                                       document_count |-> r.value.found,
                                       fields |-> collection.fields]),
          calls |-> Append(acc.calls, c)]
    ELSE [total_docs |-> acc.total_docs,
          collection_stats |-> acc.collection_stats,
          calls |-> Append(acc.calls, c)]

\* one iteration of the loop over the listed collections in get_typesense_stats:
\* acc holds total_docs, collection_stats and the calls made so far, r is the
\* outcome of the count search for this collection
StatsLoopBody(acc, collection, r) ==
    LET c == Call("documents.search", collection.name, CountParams, r) IN
    IF r.ok
    THEN [total_docs |-> acc.total_docs + r.value.found,
          collection_stats |-> Append(acc.collection_stats,
                                      [name |-> collection.name,
                                       document_count |-> r.value.found,
                                       fields |-> collection.fields]),
          calls |-> Append(acc.calls, c)]
    ELSE [total_docs |-> acc.total_docs,
          collection_stats |-> Append(acc.collection_stats,
                                      [name |-> collection.name,
                                       document_count |-> "unknown",
                                       fields |-> collection.fields]),
          calls |-> Append(acc.calls, c)]

RECURSIVE StatsLoop(_, _, _)
\* for collection in collections: ...; the count search of a collection whose
\* name is in failing is not answered
StatsLoop(acc, listed, failing) ==
    IF Len(listed) = 0 THEN acc
    ELSE StatsLoop(StatsLoopBody(acc, Head(listed),
                                 documents_search_all(collections, documents,
                                                      Head(listed).name,
                                                      Head(listed).name \notin failing)),
                   Tail(listed), failing)

get_typesense_stats(up, failing) ==
    LET r == collections_retrieve(collections, documents, up)
        c == Call("collections.retrieve", "", NoParams, r)
        args == [failing |-> failing]
    IN IF ~r.ok
       THEN Response("get_typesense_stats", args, <<c>>, 400,
                     HTTPException("Failed to get Typesense stats", r.err), documents)
       ELSE LET acc == StatsLoop([total_docs |-> 0, collection_stats |-> <<>>,
                                  calls |-> <<c>>], r.value, failing)
            IN Response("get_typesense_stats", args, acc.calls, 200,
                        [total_collections |-> Len(r.value),
                         total_documents |-> acc.total_docs,
                         collections |-> acc.collection_stats], documents)

get_categories(up) ==
    LET r == documents_facet_category(collections, documents, COLLECTION_NAME, up)
        calls == <<Call("documents.search", COLLECTION_NAME,
                        [q |-> "*", facet_by |-> "category"], r)>>
    IN IF r.ok
       THEN Response("get_categories", <<>>, calls, 200,
                     [categories |-> r.value.categories], documents)
       ELSE Response("get_categories", <<>>, calls, 400,
                     HTTPException("Failed to get categories", r.err), documents)

get_recommendations(product_id, limit, found, up1, up2) ==
    LET args == [product_id |-> product_id, limit |-> limit]
        r1 == document_retrieve(collections, documents, COLLECTION_NAME, product_id, up1)
        c1 == Call("document.retrieve", product_id, NoParams, r1)
    IN IF ~r1.ok
       THEN Response("get_recommendations", args, <<c1>>, 400,
                     HTTPException("Failed to get recommendations", r1.err), documents)
       ELSE LET search_params == [q |-> Join(r1.value.tags, " "),
                                  query_by |-> "tags,category,name",
                                  filter_by |-> "id:!=" \o product_id,
                                  per_page |-> limit, sort_by |-> "rating:desc"]
                r2 == documents_search(collections, documents, COLLECTION_NAME, found, up2)
                c2 == Call("documents.search", COLLECTION_NAME, search_params, r2)
            IN IF r2.ok
               THEN Response("get_recommendations", args, <<c1, c2>>, 200,
                             [source_product |-> r1.value, found |-> r2.value.found],
                             documents)
               ELSE Response("get_recommendations", args, <<c1, c2>>, 400,
                             HTTPException("Failed to get recommendations", r2.err),
                             documents)

----------------------------------------------------------------------------
(* The router: once the application serves, any request may arrive *)

\* history: the product a successful POST stored under an id, until a
\* successful DELETE of that id
PostedAfter(resp) ==
    IF resp.endpoint = "add_product" /\ resp.status = 200
    THEN Put(posted, resp.args.id, resp.args)
    ELSE IF resp.endpoint = "delete_product" /\ resp.status = 200
    THEN Drop(posted, resp.args.product_id)
    ELSE posted

\* the application accepts requests
Serving == phase = "serving"

\* a request is dispatched to its handler and the handler's response is sent
Handle(resp) ==
    /\ Serving
    /\ last' = [f \in (DOMAIN resp) \ {"documents"} |-> resp[f]]
    /\ documents' = resp.documents
    /\ posted' = PostedAfter(resp)
    /\ UNCHANGED <<phase, bootVars, collections>>

Req_root == Handle(root)

Req_health_check == \E up \in BOOLEAN : Handle(health_check(up))

Req_get_all_products ==
    \E limit \in Limits, offset \in Offsets, up \in BOOLEAN :
        Handle(get_all_products(limit, offset, up))

Req_add_product ==
    \E product \in PostedProducts, up \in BOOLEAN : Handle(add_product(product, up))

Req_get_product ==
    \E product_id \in RequestIds, up \in BOOLEAN : Handle(get_product(product_id, up))

Req_delete_product ==
    \E product_id \in RequestIds, up \in BOOLEAN : Handle(delete_product(product_id, up))

Req_search_products ==
    \E search_query \in SearchQueries, up \in BOOLEAN :
        \E found \in Founds(documents, COLLECTION_NAME) :
            Handle(search_products(search_query, found, up))

Req_get_all_collections == \E up \in BOOLEAN : Handle(get_all_collections(up))

Req_get_collection_info ==
    \E collection_name \in RequestNames, up \in BOOLEAN :
        Handle(get_collection_info(collection_name, up))

Req_get_collection_stats ==
    \E collection_name \in RequestNames, up1 \in BOOLEAN, up2 \in BOOLEAN :
        Handle(get_collection_stats(collection_name, up1, up2))

Req_get_typesense_stats ==
    \E up \in BOOLEAN, failing \in SUBSET CollectionNames(collections) :
        Handle(get_typesense_stats(up, failing))

Req_get_categories == \E up \in BOOLEAN : Handle(get_categories(up))

Req_get_recommendations ==
    \E product_id \in RequestIds, limit \in RecommendationLimits,
       up1 \in BOOLEAN, up2 \in BOOLEAN :
        \E found \in Founds(documents, COLLECTION_NAME) :
            Handle(get_recommendations(product_id, limit, found, up1, up2))

Next ==
    \/ lifespan_startup
    \/ setup_attempt
    \/ setup_delete
    \/ setup_create
    \/ setup_import
    \/ lifespan_yield
    \/ Req_root
    \/ Req_health_check
    \/ Req_get_all_products
    \/ Req_add_product
    \/ Req_get_product
    \/ Req_delete_product
    \/ Req_search_products
    \/ Req_get_all_collections
    \/ Req_get_collection_info
    \/ Req_get_collection_stats
    \/ Req_get_typesense_stats
    \/ Req_get_categories
    \/ Req_get_recommendations

Spec == Init /\ [][Next]_vars

----------------------------------------------------------------------------
(* Properties of the startup *)

IsAttempt(c) == c.op = "collections.retrieve"

IsSetupCall(c) == c.op # "collections.retrieve"

IsFailed(c) == ~c.ok

\* the reachability attempts made so far, and the setup calls after them
Attempts == SelectSeq(bootCalls, IsAttempt)

FailedAttempts == Len(SelectSeq(Attempts, IsFailed))

SetupCalls == SelectSeq(bootCalls, IsSetupCall)

SetupOrder == <<"collection.delete", "collections.create", "documents.import">>

SampleDocuments == [i \in {sample_products[k].id : k \in DOMAIN sample_products} |->
                      CHOOSE d \in Range(sample_products) : d.id = i]

\* C1: setup_typesense is entered at most once, the application serves only
\* after it has been entered once and has returned, and a request is handled
\* only then.  A returned setup_typesense makes no further engine call, so no
\* handler's engine call lies between two bootstrap calls.
C1_BootstrapBeforeRequests ==
    /\ bootRuns <= 1
    /\ (phase = "serving" => bootRuns = 1 /\ pc = "returned")
    /\ (last.endpoint # "none" => phase = "serving" /\ bootRuns = 1 /\ pc = "returned")

\* a handler that calls the engine has run, after the one bootstrap
C1_Witness ==
    /\ last.endpoint = "get_product"
    /\ Len(last.calls) = 1
    /\ bootRuns = 1

\* C2: at most max_retries (10) attempts are made, none after a successful
\* one, and the k-th sleep, which follows the k-th failed attempt, lasts
\* 2 * 1.5^(k-1); the last of the 10 attempts is not followed by a sleep.
C2_RetryBackoff ==
    /\ Len(Attempts) <= max_retries
    /\ \A i \in DOMAIN bootCalls :
         (IsAttempt(bootCalls[i]) /\ bootCalls[i].ok)
            => \A j \in DOMAIN bootCalls : j > i => ~IsAttempt(bootCalls[j])
    /\ phase = "startup" =>
         Len(sleeps) = IF FailedAttempts = max_retries THEN max_retries - 1
                       ELSE FailedAttempts
    /\ \A k \in DOMAIN sleeps :
         sleeps[k][1] * 2^(k-1) = 2 * 3^(k-1) * sleeps[k][2]

\* the fourth attempt succeeded after the sleeps 2, 3 and 4.5
C2_Witness ==
    /\ pc = "delete"
    /\ Len(Attempts) = 4
    /\ Len(sleeps) = 3
    /\ sleeps[3][1] * 2 = 9 * sleeps[3][2]

\* C3: when all 10 attempts have failed, setup_typesense has returned without
\* raising and has made no call but the 10 attempts, and the application
\* does not fail to start: it serves.
C3_DegradedStart ==
    /\ FailedAttempts = max_retries =>
         /\ pc = "returned"
         /\ ~bootRaised
         /\ Len(SetupCalls) = 0
         /\ printed = "Failed to connect to Typesense"
    /\ printed = "Failed to connect to Typesense" =>
         /\ pc = "returned"
         /\ ~bootRaised
         /\ phase \in {"startup", "serving"}
         /\ phase = "startup" => FailedAttempts = max_retries /\ Len(SetupCalls) = 0

\* after a start with the engine unreachable a request was handled
C3_Witness ==
    /\ printed = "Failed to connect to Typesense"
    /\ phase = "serving"
    /\ last.endpoint = "health_check"

\* C4: the setup calls are made in the order delete, create, import, each at
\* most once and only after a successful attempt; after the delete, failed or
\* not, the create is next; a failed create or import ends setup_typesense,
\* which never raises; and when create and import succeeded the collection
\* holds exactly the sample records.
C4_SetupSequence ==
    /\ Len(SetupCalls) <= 3
    /\ \A i \in DOMAIN SetupCalls : SetupCalls[i].op = SetupOrder[i]
    /\ Len(SetupCalls) > 0 =>
         /\ Len(Attempts) > 0
         /\ Attempts[Len(Attempts)].ok
         /\ bootCalls = Attempts \o SetupCalls
    /\ ~bootRaised
    /\ Len(SetupCalls) = 1 => pc = "create"
    /\ Len(SetupCalls) = 2 =>
         pc = IF SetupCalls[2].ok THEN "import" ELSE "returned"
    /\ Len(SetupCalls) = 3 =>
         /\ pc = "returned"
         /\ SetupCalls[2].ok
         /\ SetupCalls[3].ok =>
              /\ COLLECTION_NAME \in CollectionNames(collections)
              /\ documents[COLLECTION_NAME] = SampleDocuments

\* the delete failed, create and import succeeded, and the collection holds
\* the samples
C4_Witness ==
    /\ pc = "returned"
    /\ Len(SetupCalls) = 3
    /\ ~SetupCalls[1].ok
    /\ SetupCalls[2].ok
    /\ SetupCalls[3].ok
    /\ documents[COLLECTION_NAME] = SampleDocuments

----------------------------------------------------------------------------
(* Properties of the request handlers *)

\* the clause a supplied (non-null) filter stands for
SuppliedClauses(q) ==
    (IF q.category # <<>> THEN <<"category:=" \o q.category[1]>> ELSE <<>>)
    \o (IF q.min_price # <<>> THEN <<"price:>=" \o FloatStr(q.min_price[1])>> ELSE <<>>)
    \o (IF q.max_price # <<>> THEN <<"price:<=" \o FloatStr(q.max_price[1])>> ELSE <<>>)

\* C5: the filter_by sent by POST /search/ holds one clause for each of
\* category, min_price, max_price that the body supplies (non-null), in this
\* order, joined by ' && ', and is absent exactly when none is supplied.
C5_ClausePerSuppliedFilter ==
    last.endpoint = "search_products" =>
        LET params == last.calls[1].params
            expected == SuppliedClauses(last.args)
        IN IF Len(expected) = 0
           THEN "filter_by" \notin DOMAIN params
           ELSE /\ "filter_by" \in DOMAIN params
                /\ params.filter_by = Join(expected, " && ")

LookupEndpoints ==
    {"get_product", "delete_product", "get_collection_info",
     "get_collection_stats", "get_recommendations"}

\* C6: a lookup of a product or a collection the engine does not hold is
\* answered with status 404, on every endpoint that looks an entity up.
C6_MissingEntityIs404 ==
    (/\ last.endpoint \in LookupEndpoints
     /\ last.calls[1].err = "ObjectNotFound")
        => last.status = 404

\* C7 as stated: every request handled makes exactly one engine call.
C7_ExactlyOneCall ==
    last.endpoint # "none" => Len(last.calls) = 1

\* the number of engine calls the handler of the last request makes
ExpectedCalls ==
    CASE last.endpoint = "root" -> 0
      [] last.endpoint = "get_all_products" -> IF last.args.limit = 0 THEN 0 ELSE 1
      [] last.endpoint \in {"get_collection_stats", "get_recommendations"} ->
            IF last.calls[1].ok THEN 2 ELSE 1
      [] last.endpoint = "get_typesense_stats" ->
            IF last.calls[1].ok THEN 1 + Len(collections) ELSE 1
      [] OTHER -> 1

\* C7, amended: the number of engine calls of a request is fixed by its
\* endpoint: none for GET / and for GET /products/ with limit 0; for the
\* collection stats and the recommendations a lookup and, if it succeeded, a
\* search; for the Typesense stats the listing and, if it succeeded, one count
\* search per listed collection; one for every other endpoint.  No call
\* that failed is made again.
C7_CallsPerEndpoint ==
    last.endpoint # "none" =>
        /\ Len(last.calls) = ExpectedCalls
        /\ \A i, j \in DOMAIN last.calls :
             (i < j /\ ~last.calls[i].ok)
                => ~(/\ last.calls[j].op = last.calls[i].op
                     /\ last.calls[j].target = last.calls[i].target)

\* the Typesense stats listed two collections and searched each
C7_Witness ==
    /\ last.endpoint = "get_typesense_stats"
    /\ Len(last.calls) = 3
    /\ ~last.calls[2].ok

\* C8: while a product POSTed under a new id has not been deleted, a GET of
\* that id which the engine answers, the collection being present, returns
\* status 200 and the posted id, name, description, category, price, rating
\* and tags.
C8_PostThenGet ==
    (/\ last.endpoint = "get_product"
     /\ last.args.product_id \in DOMAIN posted
     /\ last.calls[1].err # "ServiceUnavailable"
     /\ COLLECTION_NAME \in CollectionNames(collections))
        => /\ last.status = 200
           /\ LET p == posted[last.args.product_id] IN
              /\ last.body.id = p.id
              /\ last.body.name = p.name
              /\ last.body.description = p.description
              /\ last.body.category = p.category
              /\ last.body.price = p.price
              /\ last.body.rating = p.rating
              /\ last.body.tags = p.tags

\* a product with tags, posted under id 6, was fetched
C8_Witness ==
    /\ last.endpoint = "get_product"
    /\ last.args.product_id = "6"
    /\ "6" \in DOMAIN posted
    /\ last.status = 200
    /\ last.body.name = "Kindle"
    /\ Len(last.body.tags) = 2

\* C9: for limit >= 1 and offset >= 0 the page sent to the engine is
\* floor(offset / limit) + 1, the page p with (p-1)*limit <= offset < p*limit,
\* per_page is limit, and a response reports the same page and per_page.
C9_Pagination ==
    (/\ last.endpoint = "get_all_products"
     /\ last.args.limit >= 1
     /\ last.args.offset >= 0)
        => /\ Len(last.calls) = 1
           /\ LET params == last.calls[1].params
                  limit == last.args.limit
                  offset == last.args.offset
              IN /\ (params.page - 1) * limit <= offset
                 /\ offset < params.page * limit
                 /\ params.per_page = limit
                 /\ last.status = 200 =>
                      /\ last.body.page = params.page
                      /\ last.body.per_page = limit

\* limit 10, offset 25 is page 3
C9_Witness ==
    /\ last.endpoint = "get_all_products"
    /\ last.args.limit = 10
    /\ last.args.offset = 25
    /\ last.status = 200
    /\ last.body.page = 3
    /\ last.calls[1].params.page = 3

\* the counts of the collections whose count search is answered
CountedDocuments(failing) ==
    SumSeq([i \in DOMAIN collections |->
              IF collections[i].name \in failing THEN 0
              ELSE Cardinality(DOMAIN documents[collections[i].name])])

\* C10: when the listing succeeds GET /admin/typesense/stats answers 200 with
\* one entry per listed collection, in listing order: document_count is
\* "unknown" where the count search failed and the found-count elsewhere;
\* total_collections is the number listed and total_documents the sum of the
\* counts found.
C10_StatsFallback ==
    (/\ last.endpoint = "get_typesense_stats"
     /\ last.calls[1].ok)
        => /\ last.status = 200
           /\ last.body.total_collections = Len(collections)
           /\ Len(last.body.collections) = Len(collections)
           /\ \A i \in DOMAIN collections :
                LET entry == last.body.collections[i]
                    name == collections[i].name
                IN /\ entry.name = name
                   /\ IF name \in last.args.failing
                      THEN entry.document_count = "unknown"
                      ELSE entry.document_count = Cardinality(DOMAIN documents[name])
           /\ last.body.total_documents = CountedDocuments(last.args.failing)

\* two collections listed, the count of logs failed, the products counted
C10_Witness ==
    /\ last.endpoint = "get_typesense_stats"
    /\ last.status = 200
    /\ last.args.failing = {"logs"}
    /\ Len(last.body.collections) = 2
    /\ last.body.total_documents = 5

====
